---- MODULE Spec2Model ----
(***************************************************************************)
(* Model of the profile-extraction and conversation-state engine of        *)
(* ozlistings-chat: the profile store (database.py), the merge             *)
(* update_user_profile, increment_message_count, and the message pipeline  *)
(* ProfileExtractor.extract_profile_updates / update_profile               *)
(* (profiling.py).                                                         *)
(*                                                                         *)
(* Python values are tagged records; Python strings are sequences of       *)
(* one-character strings so that strip(), lower(), upper(), replace() and  *)
(* float() are computed character by character.  A dict is a function      *)
(* whose DOMAIN is its key set.                                            *)
(***************************************************************************)
EXTENDS Integers, Sequences, FiniteSets, TLC

\* ------------------------------------------------------------------------
\* Bounds of the model (not program constants)
\* ------------------------------------------------------------------------
MaxKeys == 2
MaxMessages == 5
MaxChat == 2
\* calls of ChatAgent.get_response per user in the conversation-history runs
MaxTurns == 11

\* ------------------------------------------------------------------------
\* String literals (as character sequences)
\* ------------------------------------------------------------------------
sEmpty == << >>
sInvestor == <<"I", "n", "v", "e", "s", "t", "o", "r">>
sDeveloper == <<"D", "e", "v", "e", "l", "o", "p", "e", "r">>
s_investor == <<"i", "n", "v", "e", "s", "t", "o", "r">>
s_INVESTOR == <<"I", "N", "V", "E", "S", "T", "O", "R">>
s_DEVELOPER_sp == <<" ", "D", "E", "V", "E", "L", "O", "P", "E", "R", " ">>
s_admin == <<"a", "d", "m", "i", "n">>
sLast180 == <<"L", "a", "s", "t", " ", "1", "8", "0", " ", "d", "a", "y", "s">>
sMore180 == <<"M", "o", "r", "e", " ", "t", "h", "a", "n", " ", "1", "8", "0", " ", "d", "a", "y", "s", " ", "A", "G", "O">>
sUpcoming == <<"U", "p", "c", "o", "m", "i", "n", "g">>
s_soon == <<"s", "o", "o", "n">>
s_fl == <<"f", "l">>
sFL == <<"F", "L">>
sTX == <<"T", "X">>
sXX == <<"X", "X">>
s_California == <<"C", "a", "l", "i", "f", "o", "r", "n", "i", "a">>
s_1c300c000 == <<"1", ",", "3", "0", "0", ",", "0", "0", "0">>
s_1300000 == <<"1", "3", "0", "0", "0", "0", "0">>
s_d1300000 == <<"$", "1", "3", "0", "0", "0", "0", "0">>
s_abc == <<"a", "b", "c">>
s_m5 == <<"-", "5">>
s_nan == <<"n", "a", "n">>
s_inf == <<"i", "n", "f">>
s_infinity == <<"i", "n", "f", "i", "n", "i", "t", "y">>
sAustin == <<"A", "u", "s", "t", "i", "n", ",", " ", "T", "X">>
sPlaceholder == <<"L", "o", "c", "a", "t", "i", "o", "n", " ", "t", "o", " ", "b", "e", " ", "d", "e", "t", "e", "r", "m", "i", "n", "e", "d">>
sTrue == <<"T", "r", "u", "e">>
sFalse == <<"F", "a", "l", "s", "e">>
sNone == <<"N", "o", "n", "e">>

\* ------------------------------------------------------------------------
\* Python values
\* ------------------------------------------------------------------------
PyNone == [t |-> "none"]
PyStr(s) == [t |-> "str", s |-> s]
PyBool(b) == [t |-> "bool", b |-> b]
PyInt(n) == [t |-> "int", n |-> n]
\* a finite float is (-1)^neg * m / 10^e, with m not divisible by 10 unless e = 0
PyFloat(neg, m, e) == [t |-> "float", k |-> "fin", neg |-> neg, m |-> m, e |-> e]
PyNaN == [t |-> "float", k |-> "nan"]
PyInf(neg) == [t |-> "float", k |-> "inf", neg |-> neg]
PyList(l) == [t |-> "list", l |-> l]

IsNone(v) == v.t = "none"

\* Python truthiness: bool(v)
Truthy(v) ==
    CASE v.t = "none" -> FALSE
      [] v.t = "bool" -> v.b
      [] v.t = "str" -> v.s # << >>
      [] v.t = "int" -> v.n # 0
      [] v.t = "float" -> IF v.k = "fin" THEN v.m # 0 ELSE TRUE
      [] v.t = "list" -> v.l # << >>

\* ------------------------------------------------------------------------
\* str methods
\* ------------------------------------------------------------------------
UpperChars == <<"A","B","C","D","E","F","G","H","I","J","K","L","M","N","O","P","Q","R","S","T","U","V","W","X","Y","Z">>
LowerChars == <<"a","b","c","d","e","f","g","h","i","j","k","l","m","n","o","p","q","r","s","t","u","v","w","x","y","z">>
DigitChars == <<"0","1","2","3","4","5","6","7","8","9">>

LowerChar(c) ==
    IF \E i \in 1..26 : UpperChars[i] = c
    THEN LowerChars[CHOOSE i \in 1..26 : UpperChars[i] = c]
    ELSE c

UpperChar(c) ==
    IF \E i \in 1..26 : LowerChars[i] = c
    THEN UpperChars[CHOOSE i \in 1..26 : LowerChars[i] = c]
    ELSE c

\* str.lower()
Lower(s) == [i \in 1..Len(s) |-> LowerChar(s[i])]

\* str.upper()
Upper(s) == [i \in 1..Len(s) |-> UpperChar(s[i])]

RECURSIVE LStrip(_)
LStrip(s) == IF s # << >> /\ Head(s) = " " THEN LStrip(Tail(s)) ELSE s

RECURSIVE RStrip(_)
RStrip(s) == IF s # << >> /\ s[Len(s)] = " " THEN RStrip(SubSeq(s, 1, Len(s) - 1)) ELSE s

\* str.strip()
Strip(s) == RStrip(LStrip(s))

\* str.replace(c, '')
RemoveChar(s, c) == SelectSeq(s, LAMBDA x : x # c)

IsDigit(c) == \E i \in 1..10 : DigitChars[i] = c
DigitVal(c) == (CHOOSE i \in 1..10 : DigitChars[i] = c) - 1

RECURSIVE DigitsToNat(_)
DigitsToNat(s) ==
    IF s = << >> THEN 0
    ELSE 10 * DigitsToNat(SubSeq(s, 1, Len(s) - 1)) + DigitVal(s[Len(s)])

RECURSIVE NatToDigits(_)
NatToDigits(n) ==
    IF n < 10 THEN <<DigitChars[n + 1]>>
    ELSE NatToDigits(n \div 10) \o <<DigitChars[(n % 10) + 1]>>

RECURSIVE Pow10(_)
Pow10(e) == IF e = 0 THEN 1 ELSE 10 * Pow10(e - 1)

RECURSIVE NormFloat(_, _, _)
NormFloat(neg, m, e) ==
    IF e > 0 /\ m % 10 = 0 THEN NormFloat(neg, m \div 10, e - 1)
    ELSE PyFloat(neg, m, e)

RECURSIVE ZeroPad(_, _)
ZeroPad(s, n) == IF Len(s) >= n THEN s ELSE ZeroPad(<<"0">> \o s, n)

\* str(float) for the magnitudes of the model (repr without exponent)
FloatToStr(v) ==
    IF v.k = "nan" THEN s_nan
    ELSE IF v.k = "inf" THEN (IF v.neg THEN <<"-">> ELSE << >>) \o s_inf
    ELSE (IF v.neg THEN <<"-">> ELSE << >>)
         \o NatToDigits(v.m \div Pow10(v.e))
         \o <<".">>
         \o (IF v.e = 0 THEN <<"0">> ELSE ZeroPad(NatToDigits(v.m % Pow10(v.e)), v.e))

RECURSIVE JoinRepr(_)
JoinRepr(l) ==
    IF l = << >> THEN << >>
    ELSE <<"'">> \o Head(l) \o <<"'">>
         \o (IF Len(l) > 1 THEN <<",", " ">> ELSE << >>) \o JoinRepr(Tail(l))

\* str(v)
Str(v) ==
    CASE v.t = "none" -> sNone
      [] v.t = "bool" -> IF v.b THEN sTrue ELSE sFalse
      [] v.t = "str" -> v.s
      [] v.t = "int" -> (IF v.n < 0 THEN <<"-">> \o NatToDigits(0 - v.n) ELSE NatToDigits(v.n))
      [] v.t = "float" -> FloatToStr(v)
      [] v.t = "list" -> <<"[">> \o JoinRepr(v.l) \o <<"]">>

AllDigits(s) == \A i \in 1..Len(s) : IsDigit(s[i])

\* float(s): [ok |-> FALSE] stands for ValueError
Raises == [ok |-> FALSE]
Returns(v) == [ok |-> TRUE, v |-> v]

ParseUnsigned(neg, s) ==
    LET dots == {i \in 1..Len(s) : s[i] = "."} IN
    IF Lower(s) = s_nan THEN Returns(PyNaN)
    ELSE IF Lower(s) \in {s_inf, s_infinity} THEN Returns(PyInf(neg))
    ELSE IF dots = {} THEN
        IF s # << >> /\ AllDigits(s) THEN Returns(NormFloat(neg, DigitsToNat(s), 0)) ELSE Raises
    ELSE IF Cardinality(dots) = 1 THEN
        LET d == CHOOSE i \in dots : TRUE
            ip == SubSeq(s, 1, d - 1)
            fp == SubSeq(s, d + 1, Len(s))
        IN IF AllDigits(ip) /\ AllDigits(fp) /\ Len(ip) + Len(fp) > 0
           THEN Returns(NormFloat(neg, DigitsToNat(ip \o fp), Len(fp)))
           ELSE Raises
    ELSE Raises

PyFloatOf(str) ==
    LET s == Strip(str) IN
    IF s = << >> THEN Raises
    ELSE IF Head(s) = "-" THEN ParseUnsigned(TRUE, Tail(s))
    ELSE IF Head(s) = "+" THEN ParseUnsigned(FALSE, Tail(s))
    ELSE ParseUnsigned(FALSE, s)

\* ------------------------------------------------------------------------
\* dict helpers
\* ------------------------------------------------------------------------
EmptyDict == [k \in {} |-> PyNone]
\* d[k] = v
Put(d, k, v) == (k :> v) @@ d
\* d.update(e)
Update(d, e) == e @@ d
Has(d, k) == k \in DOMAIN d

\* ------------------------------------------------------------------------
\* database.py constants and the UserProfile row
\* ------------------------------------------------------------------------
VALID_ROLES == <<sDeveloper, sInvestor>>
VALID_CAP_GAIN_TIMES == <<sLast180, sMore180, sUpcoming>>
US_STATES ==
    <<<<"A","L">>, <<"A","K">>, <<"A","Z">>, <<"A","R">>, <<"C","A">>, <<"C","O">>, <<"C","T">>, <<"D","E">>, <<"F","L">>, <<"G","A">>,
      <<"H","I">>, <<"I","D">>, <<"I","L">>, <<"I","N">>, <<"I","A">>, <<"K","S">>, <<"K","Y">>, <<"L","A">>, <<"M","E">>, <<"M","D">>,
      <<"M","A">>, <<"M","I">>, <<"M","N">>, <<"M","S">>, <<"M","O">>, <<"M","T">>, <<"N","E">>, <<"N","V">>, <<"N","H">>, <<"N","J">>,
      <<"N","M">>, <<"N","Y">>, <<"N","C">>, <<"N","D">>, <<"O","H">>, <<"O","K">>, <<"O","R">>, <<"P","A">>, <<"R","I">>, <<"S","C">>,
      <<"S","D">>, <<"T","N">>, <<"T","X">>, <<"U","T">>, <<"V","T">>, <<"V","A">>, <<"W","A">>, <<"W","V">>, <<"W","I">>, <<"W","Y">>,
      <<"D","C">>>>

InList(x, l) == \E i \in 1..Len(l) : l[i] = x

InvestorFields == {"cap_gain_or_not", "size_of_cap_gain", "time_of_cap_gain",
                   "geographical_zone_of_investment"}
Columns == {"role", "location_of_development", "need_team_contact"} \cup InvestorFields

NoProfile == [exists |-> FALSE]

\* Column defaults applied at INSERT: nullable columns NULL, need_team_contact False
ColumnDefault(c) == IF c = "need_team_contact" THEN PyBool(FALSE) ELSE PyNone

\* ------------------------------------------------------------------------
\* update_user_profile: field cleaning
\* ------------------------------------------------------------------------
\* variant: an invalid role is written as NULL
CleanRoleNullOnInvalid(profile_data) ==
    IF Has(profile_data, "role") /\ Truthy(profile_data["role"])
    THEN LET role_input == Strip(Str(profile_data["role"])) IN
         IF InList(role_input, VALID_ROLES)
         THEN "role" :> PyStr(role_input)
         ELSE LET hits == {i \in 1..Len(VALID_ROLES) : Lower(role_input) = Lower(VALID_ROLES[i])} IN
              IF hits # {}
              THEN "role" :> PyStr(VALID_ROLES[CHOOSE i \in hits : \A j \in hits : i <= j])
              ELSE "role" :> PyNone
    ELSE EmptyDict

\* variant: the case-insensitive match stores the input as given
CleanRoleAsGiven(profile_data) ==
    IF Has(profile_data, "role") /\ Truthy(profile_data["role"])
    THEN LET role_input == Strip(Str(profile_data["role"])) IN
         IF \E i \in 1..Len(VALID_ROLES) : Lower(role_input) = Lower(VALID_ROLES[i])
         THEN "role" :> PyStr(role_input)
         ELSE EmptyDict
    ELSE EmptyDict

CleanRole(profile_data) ==
    IF Has(profile_data, "role") /\ Truthy(profile_data["role"])
    THEN LET role_input == Strip(Str(profile_data["role"])) IN
         IF InList(role_input, VALID_ROLES)
         THEN "role" :> PyStr(role_input)
         ELSE LET hits == {i \in 1..Len(VALID_ROLES) : Lower(role_input) = Lower(VALID_ROLES[i])} IN
              IF hits # {}
              THEN "role" :> PyStr(VALID_ROLES[CHOOSE i \in hits : \A j \in hits : i <= j])
              ELSE EmptyDict
    ELSE EmptyDict

CleanTime(profile_data) ==
    IF Has(profile_data, "time_of_cap_gain") /\ Truthy(profile_data["time_of_cap_gain"])
    THEN LET time_input == Strip(Str(profile_data["time_of_cap_gain"])) IN
         IF InList(time_input, VALID_CAP_GAIN_TIMES)
         THEN "time_of_cap_gain" :> PyStr(time_input)
         ELSE EmptyDict
    ELSE EmptyDict

\* variant: any two-character code is accepted
CleanZoneAnyTwoLetters(profile_data) ==
    IF Has(profile_data, "geographical_zone_of_investment")
       /\ Truthy(profile_data["geographical_zone_of_investment"])
    THEN LET state == Upper(Strip(Str(profile_data["geographical_zone_of_investment"]))) IN
         IF Len(state) = 2
         THEN "geographical_zone_of_investment" :> PyStr(state)
         ELSE EmptyDict
    ELSE EmptyDict

CleanZone(profile_data) ==
    IF Has(profile_data, "geographical_zone_of_investment")
       /\ Truthy(profile_data["geographical_zone_of_investment"])
    THEN LET state == Upper(Strip(Str(profile_data["geographical_zone_of_investment"]))) IN
         IF Len(state) = 2 /\ InList(state, US_STATES)
         THEN "geographical_zone_of_investment" :> PyStr(state)
         ELSE EmptyDict
    ELSE EmptyDict

\* variant: the currency symbol is not removed
CleanSizeKeepDollar(profile_data) ==
    IF Has(profile_data, "size_of_cap_gain") /\ ~IsNone(profile_data["size_of_cap_gain"])
    THEN LET size_str == Strip(RemoveChar(Str(profile_data["size_of_cap_gain"]), ","))
             size_numeric == PyFloatOf(size_str)
         IN IF size_numeric.ok
            THEN "size_of_cap_gain" :> size_numeric.v
            ELSE EmptyDict
    ELSE EmptyDict

CleanSize(profile_data) ==
    IF Has(profile_data, "size_of_cap_gain") /\ ~IsNone(profile_data["size_of_cap_gain"])
    THEN LET size_str == Strip(RemoveChar(RemoveChar(Str(profile_data["size_of_cap_gain"]), ","), "$"))
             size_numeric == PyFloatOf(size_str)
         IN IF size_numeric.ok
            THEN "size_of_cap_gain" :> size_numeric.v
            ELSE EmptyDict
    ELSE EmptyDict

CleanBools(profile_data) ==
    (IF Has(profile_data, "cap_gain_or_not")
     THEN "cap_gain_or_not" :> PyBool(Truthy(profile_data["cap_gain_or_not"]))
     ELSE EmptyDict)
    @@
    (IF Has(profile_data, "need_team_contact")
     THEN "need_team_contact" :> PyBool(Truthy(profile_data["need_team_contact"]))
     ELSE EmptyDict)

CleanLocation(profile_data) ==
    IF Has(profile_data, "location_of_development")
    THEN "location_of_development" :> profile_data["location_of_development"]
    ELSE EmptyDict

CleanFields(profile_data) ==
    CleanRole(profile_data) @@ CleanTime(profile_data) @@ CleanZone(profile_data)
    @@ CleanSize(profile_data) @@ CleanBools(profile_data) @@ CleanLocation(profile_data)

\* ------------------------------------------------------------------------
\* update_user_profile: "database constraint logic"
\* ------------------------------------------------------------------------
\* variant: the Investor branch without the forced NULL location
InvestorBranchKeepLocation(cleaned_data) ==
    IF ~Has(cleaned_data, "cap_gain_or_not")
    THEN Put(cleaned_data, "cap_gain_or_not", PyBool(FALSE))
    ELSE cleaned_data

InvestorBranch(cleaned_data) ==
    LET c1 == Put(cleaned_data, "location_of_development", PyNone) IN
    IF ~Has(c1, "cap_gain_or_not")
    THEN Put(c1, "cap_gain_or_not", PyBool(FALSE))
    ELSE c1

\* variant: the Developer branch without the placeholder location
DeveloperBranchNoPlaceholder(cleaned_data) ==
    Update(cleaned_data, [f \in InvestorFields |-> PyNone])

\* variant: the Developer branch that forgets to null size_of_cap_gain
DeveloperBranchKeepAmount(cleaned_data) ==
    LET c1 == Update(cleaned_data,
                     [f \in InvestorFields \ {"size_of_cap_gain"} |-> PyNone]) IN
    IF ~Has(c1, "location_of_development") \/ ~Truthy(c1["location_of_development"])
    THEN Put(c1, "location_of_development", PyStr(sPlaceholder))
    ELSE c1

DeveloperBranch(cleaned_data) ==
    LET c1 == Update(cleaned_data, [f \in InvestorFields |-> PyNone]) IN
    IF ~Has(c1, "location_of_development") \/ ~Truthy(c1["location_of_development"])
    THEN Put(c1, "location_of_development", PyStr(sPlaceholder))
    ELSE c1

NoRoleBranch(cleaned_data) ==
    Put(cleaned_data, "location_of_development", PyNone)

\* variant: the stored role takes precedence over the incoming role
ApplyConstraintsStoredRoleFirst(cleaned_data, profile) ==
    LET current_role == IF profile.exists THEN profile.row["role"] ELSE PyNone
        new_role == IF ~IsNone(current_role) THEN current_role
                    ELSE IF Has(cleaned_data, "role") THEN cleaned_data["role"]
                    ELSE PyNone
    IN  IF new_role = PyStr(sInvestor) THEN InvestorBranch(cleaned_data)
        ELSE IF new_role = PyStr(sDeveloper) THEN DeveloperBranch(cleaned_data)
        ELSE IF IsNone(new_role) THEN NoRoleBranch(cleaned_data)
        ELSE cleaned_data

ApplyConstraints(cleaned_data, profile) ==
    LET current_role == IF profile.exists THEN profile.row["role"] ELSE PyNone
        new_role == IF Has(cleaned_data, "role") THEN cleaned_data["role"] ELSE current_role
    IN  IF new_role = PyStr(sInvestor) THEN InvestorBranch(cleaned_data)
        ELSE IF new_role = PyStr(sDeveloper) THEN DeveloperBranch(cleaned_data)
        ELSE IF IsNone(new_role) THEN NoRoleBranch(cleaned_data)
        ELSE cleaned_data

\* variant: the row is replaced, columns absent from cleaned_data get defaults
WriteRowReplace(profile, cleaned_data) ==
    [exists |-> TRUE,
     row |-> [c \in Columns |->
                IF Has(cleaned_data, c) THEN cleaned_data[c] ELSE ColumnDefault(c)]]

\* setattr on the existing row, or UserProfile(**cleaned_data) + db.add
WriteRow(profile, cleaned_data) ==
    [exists |-> TRUE,
     row |-> [c \in Columns |->
                IF Has(cleaned_data, c) THEN cleaned_data[c]
                ELSE IF profile.exists THEN profile.row[c]
                ELSE ColumnDefault(c)]]

\* the profile stored after update_user_profile(user_id, profile_data);
\* a failing query/commit is rolled back and swallowed by the except clause
update_user_profile(profile, profile_data, fail) ==
    IF fail THEN profile
    ELSE WriteRow(profile, ApplyConstraints(CleanFields(profile_data), profile))

\* increment_message_count: [store |-> profile afterwards, ret |-> return value]
increment_message_count(profile, fail) ==
    IF fail THEN [store |-> profile, ret |-> FALSE]
    ELSE IF profile.exists
    THEN [store |-> [profile EXCEPT !.row["need_team_contact"] = PyBool(TRUE)], ret |-> TRUE]
    ELSE [store |-> profile, ret |-> FALSE]

\* get_user_profile: the dict of the row, or None (also on an exception)
get_user_profile(profile, fail) ==
    IF fail \/ ~profile.exists THEN NoProfile ELSE profile

\* ------------------------------------------------------------------------
\* profiling.py: ProfileExtractor
\* ------------------------------------------------------------------------
AutoTriggerThreshold == 4

\* current_profile.get(key) on the dict returned by get_user_profile(...) or {}
ProfileGet(current_profile, key) ==
    IF current_profile.exists THEN current_profile.row[key] ELSE PyNone

\* profile.need_team_contact of the stored row
NeedTeamContact(profile) == profile.exists /\ Truthy(profile.row["need_team_contact"])

\* int(v) of a Python bool or int, as used by comparisons
IntOf(v) == IF v.t = "bool" THEN (IF v.b THEN 1 ELSE 0) ELSE v.n

\* "state and len(state) == 2 and state.upper() in US_STATES": len() raises
\* for a truthy number or bool, .upper() raises for a list of length 2
ZoneCheckRaises(state) ==
    /\ Truthy(state)
    /\ state.t # "str"
    /\ state.t = "list" => Len(state.l) = 2

CleanInvestorUpdates(updates) ==
    (IF Has(updates, "cap_gain_or_not")
     THEN "cap_gain_or_not" :> PyBool(Truthy(updates["cap_gain_or_not"]))
     ELSE EmptyDict)
    @@
    (IF Has(updates, "size_of_cap_gain") /\ Truthy(updates["size_of_cap_gain"])
     THEN "size_of_cap_gain" :> updates["size_of_cap_gain"]
     ELSE EmptyDict)
    @@
    (IF Has(updates, "time_of_cap_gain")
        /\ updates["time_of_cap_gain"].t = "str"
        /\ InList(updates["time_of_cap_gain"].s, VALID_CAP_GAIN_TIMES)
     THEN "time_of_cap_gain" :> updates["time_of_cap_gain"]
     ELSE EmptyDict)
    @@
    (IF Has(updates, "geographical_zone_of_investment")
        /\ Truthy(updates["geographical_zone_of_investment"])
        /\ updates["geographical_zone_of_investment"].t = "str"
        /\ Len(updates["geographical_zone_of_investment"].s) = 2
        /\ InList(Upper(updates["geographical_zone_of_investment"].s), US_STATES)
     THEN "geographical_zone_of_investment" :>
              PyStr(Upper(updates["geographical_zone_of_investment"].s))
     ELSE EmptyDict)

CleanDeveloperUpdates(updates) ==
    IF Has(updates, "location_of_development") /\ Truthy(updates["location_of_development"])
    THEN "location_of_development" :> updates["location_of_development"]
    ELSE EmptyDict

\* variant: the Investor fields are processed when no role is set, too
clean_profile_updatesAnyRole(updates, current_profile) ==
    LET roleOk == Has(updates, "role")
                  /\ updates["role"] \in {PyStr(sDeveloper), PyStr(sInvestor)}
        cleanedRole == IF roleOk THEN "role" :> updates["role"] ELSE EmptyDict
        current_role == IF roleOk THEN updates["role"] ELSE ProfileGet(current_profile, "role")
    IN  IF current_role = PyStr(sDeveloper) THEN
            Returns(cleanedRole @@ CleanDeveloperUpdates(updates))
        ELSE IF Has(updates, "geographical_zone_of_investment")
                /\ ZoneCheckRaises(updates["geographical_zone_of_investment"])
        THEN Raises
        ELSE Returns(cleanedRole @@ CleanInvestorUpdates(updates))

\* _clean_profile_updates(updates, current_profile): Returns(cleaned) or Raises
clean_profile_updates(updates, current_profile) ==
    LET roleOk == Has(updates, "role")
                  /\ updates["role"] \in {PyStr(sDeveloper), PyStr(sInvestor)}
        cleanedRole == IF roleOk THEN "role" :> updates["role"] ELSE EmptyDict
        current_role == IF roleOk THEN updates["role"] ELSE ProfileGet(current_profile, "role")
    IN  IF current_role = PyStr(sInvestor) THEN
            IF Has(updates, "geographical_zone_of_investment")
               /\ ZoneCheckRaises(updates["geographical_zone_of_investment"])
            THEN Raises
            ELSE Returns(cleanedRole @@ CleanInvestorUpdates(updates))
        ELSE IF current_role = PyStr(sDeveloper) THEN
            Returns(cleanedRole @@ CleanDeveloperUpdates(updates))
        ELSE Returns(cleanedRole)

\* get_profile: the dict of get_user_profile, or {} when that returned None
EmptyView == [exists |-> FALSE, empty |-> TRUE]
\* variant: None is passed on instead of {}
get_profileNoDefault(profile, fail) == get_user_profile(profile, fail)

get_profile(profile, fail) ==
    LET profile_data == get_user_profile(profile, fail) IN
    IF profile_data.exists THEN profile_data ELSE EmptyView

\* variant: the trigger tests the truth of message_count and has no guard
ThresholdReachedAnyMessage(message_count, current_profile) ==
    IntOf(message_count) >= 1

\* the auto-trigger condition of extract_profile_updates
ThresholdReached(message_count, current_profile) ==
    /\ IntOf(message_count) >= AutoTriggerThreshold
    /\ ~Truthy(ProfileGet(current_profile, "need_team_contact"))

AutoAction == [action |-> "share_calendar_link", auto |-> TRUE]
LlmAction(a) == [action |-> a, auto |-> FALSE]

\* what extract_profile_updates returns
SecurityResult == [kind |-> "security_flag"]
EmptyResult == [kind |-> "empty"]
NormalResult(updates, actions, message_count) ==
    [kind |-> "normal", updates |-> updates, actions |-> actions,
     message_count |-> message_count]

\* update_profile: the dict built from the result of extract_profile_updates
update_profile(result) ==
    IF result.kind = "security_flag"
    THEN [status |-> "security_warning"]
    ELSE [status |-> "success",
          updates |-> IF result.kind = "normal" THEN result.updates ELSE EmptyDict,
          actions |-> IF result.kind = "normal" THEN result.actions ELSE << >>,
          message_count |-> IF result.kind = "normal" THEN result.message_count ELSE PyInt(0)]

\* ------------------------------------------------------------------------
\* State
\* ------------------------------------------------------------------------
VARIABLES
    store,      \* ozzie_user_profiles: user -> row or NoProfile
    last,       \* the direct call of database.py that just completed, with the row it started from
    procs,      \* the in-flight update_profile requests
    processed,  \* user -> number of messages received so far
    conversation_history,   \* ChatAgent.conversation_history: user -> list of entries
    autos       \* user -> number of automatic share_calendar_link actions returned so far

vars == <<store, last, procs, processed, conversation_history, autos>>

Users == {"u1", "u2"}
ApiUsers == {"u1"}
SeqUsers == {"u1"}
Procs == {"p1", "p2"}

Idle == [op |-> "idle"]

\* values a direct caller passes per key
ApiValues(k) ==
    CASE k = "role" -> {PyNone, PyStr(sInvestor), PyStr(s_investor), PyStr(sDeveloper),
                        PyStr(s_admin), PyStr(sEmpty)}
      [] k = "time_of_cap_gain" -> {PyNone, PyStr(sLast180), PyStr(sUpcoming), PyStr(s_soon)}
      [] k = "geographical_zone_of_investment" -> {PyNone, PyStr(s_fl), PyStr(sTX), PyStr(sXX)}
      [] k = "size_of_cap_gain" -> {PyNone, PyStr(s_1c300c000), PyFloat(FALSE, 1300000, 0),
                                    PyInt(500000), PyStr(s_abc)}
      [] k = "cap_gain_or_not" -> {PyNone, PyBool(TRUE), PyBool(FALSE)}
      [] k = "need_team_contact" -> {PyBool(TRUE), PyBool(FALSE)}
      [] k = "location_of_development" -> {PyNone, PyStr(sEmpty), PyStr(sAustin)}

\* the dicts with key set K
RECURSIVE DictsOver(_)
DictsOver(K) ==
    IF K = {} THEN {EmptyDict}
    ELSE LET k == CHOOSE x \in K : TRUE IN
         {(k :> v) @@ d : v \in ApiValues(k), d \in DictsOver(K \ {k})}

ApiInputs == UNION {DictsOver(K) : K \in {S \in SUBSET Columns : Cardinality(S) <= MaxKeys}}

\* function-call arguments the extraction model returns
LlmUpdates ==
    {EmptyDict,
     [role |-> PyStr(sInvestor)],
     [role |-> PyStr(sDeveloper)],
     [role |-> PyStr(sDeveloper), location_of_development |-> PyStr(sAustin)],
     [role |-> PyStr(s_investor)],
     [cap_gain_or_not |-> PyBool(TRUE)],
     [size_of_cap_gain |-> PyStr(s_1c300c000)],
     [geographical_zone_of_investment |-> PyInt(5)]}

LlmActions == {<< >>, <<LlmAction("share_calendar_link")>>}

\* a message: does it match an injection pattern, and what the extraction call does
InjectionMessage == [inj |-> TRUE]
LlmFailMessage == [inj |-> FALSE, llm_fail |-> TRUE]
Messages ==
    {InjectionMessage, LlmFailMessage}
    \cup {[inj |-> FALSE, llm_fail |-> FALSE, updates |-> upd, actions |-> a] :
            upd \in LlmUpdates, a \in LlmActions}

\* further function-call arguments: mixed valid/invalid payloads and the
\* four-message conversation of test_conversation_simulation
MixedPayload ==
    [role |-> PyStr(s_investor), geographical_zone_of_investment |-> PyStr(s_California)]
NumberZonePayload ==
    [role |-> PyStr(sInvestor), geographical_zone_of_investment |-> PyInt(5)]
ListZonePayload ==
    [role |-> PyStr(sInvestor), geographical_zone_of_investment |-> PyList(<<sFL, sTX>>)]
Conversation ==
    <<[role |-> PyStr(sInvestor)],
      [time_of_cap_gain |-> PyStr(sMore180)],
      [size_of_cap_gain |-> PyStr(s_1300000)],
      [time_of_cap_gain |-> PyStr(sLast180)]>>

ScenarioUpdates ==
    LlmUpdates \cup {MixedPayload, NumberZonePayload, ListZonePayload}
    \cup {Conversation[i] : i \in 1..Len(Conversation)}

PlainMessage(upd) == [inj |-> FALSE, llm_fail |-> FALSE, updates |-> upd, actions |-> << >>]

ScenarioMessages == {PlainMessage(upd) : upd \in ScenarioUpdates}

IdleProc == [pc |-> "idle"]

Init ==
    /\ store = [u \in Users |-> NoProfile]
    /\ last = Idle
    /\ procs = [p \in Procs |-> IdleProc]
    /\ processed = [u \in Users |-> 0]
    /\ conversation_history = [u \in Users |-> << >>]
    /\ autos = [u \in Users |-> 0]

\* ------------------------------------------------------------------------
\* Direct calls of database.py
\* ------------------------------------------------------------------------
UpdateUserProfile ==
    /\ last = Idle
    /\ \E u \in ApiUsers, data \in ApiInputs, fail \in BOOLEAN :
          /\ store' = [store EXCEPT ![u] = update_user_profile(store[u], data, fail)]
          /\ last' = [op |-> "update_user_profile", u |-> u, data |-> data, fail |-> fail,
                      before |-> store[u]]
    /\ UNCHANGED <<procs, processed, conversation_history, autos>>

IncrementMessageCount(u, fail) ==
    /\ last = Idle
    /\ LET r == increment_message_count(store[u], fail) IN
       /\ store' = [store EXCEPT ![u] = r.store]
       /\ last' = [op |-> "increment_message_count", u |-> u, fail |-> fail, ret |-> r.ret,
                   before |-> store[u]]
    /\ UNCHANGED <<procs, processed, conversation_history, autos>>

\* the completed call returns to its caller
Return ==
    /\ last # Idle
    /\ last' = Idle
    /\ UNCHANGED <<store, procs, processed, conversation_history, autos>>

Next ==
    \/ UpdateUserProfile
    \/ \E u \in ApiUsers, fail \in BOOLEAN : IncrementMessageCount(u, fail)
    \/ Return

Spec == Init /\ [][Next]_vars

\* ------------------------------------------------------------------------
\* Direct calls with the edge-case inputs of test_edge_cases, and get_profile
\* ------------------------------------------------------------------------
EdgeValues(k) ==
    CASE k = "role" -> {PyStr(sInvestor), PyStr(sDeveloper), PyStr(s_investor), PyStr(s_INVESTOR),
                        PyStr(s_DEVELOPER_sp), PyStr(s_admin), PyBool(TRUE)}
      [] k = "time_of_cap_gain" -> {PyStr(sMore180), PyStr(s_soon)}
      [] k = "geographical_zone_of_investment" -> {PyStr(s_fl), PyStr(sFL), PyStr(sTX), PyStr(sXX),
                                                   PyStr(s_California), PyInt(5)}
      [] k = "size_of_cap_gain" -> {PyStr(s_1c300c000), PyStr(s_d1300000),
                                    PyFloat(FALSE, 1300000, 0), PyStr(s_m5), PyStr(s_nan),
                                    PyStr(s_abc), PyInt(0)}
      [] k = "cap_gain_or_not" -> {PyBool(TRUE)}
      [] k = "need_team_contact" -> {PyBool(TRUE)}
      [] k = "location_of_development" -> {PyStr(sAustin)}

\* update_user_profile with a one-key mapping, as in test_edge_cases
UpdateEdge ==
    /\ last = Idle
    /\ \E u \in ApiUsers, data \in UNION {{(k :> v) : v \in EdgeValues(k)} : k \in Columns} :
          /\ store' = [store EXCEPT ![u] = update_user_profile(store[u], data, FALSE)]
          /\ last' = [op |-> "update_user_profile", u |-> u, data |-> data, fail |-> FALSE,
                      before |-> store[u]]
    /\ UNCHANGED <<procs, processed, conversation_history, autos>>

\* get_profile(user_id), e.g. from GET /profile/{user_id}
GetProfile(u, fail) ==
    /\ last = Idle
    /\ last' = [op |-> "get_profile", u |-> u, fail |-> fail,
                ret |-> get_profile(store[u], fail), before |-> store[u]]
    /\ UNCHANGED <<store, procs, processed, conversation_history, autos>>

NextEdge ==
    \/ UpdateEdge
    \/ \E u \in Users, fail \in BOOLEAN : GetProfile(u, fail)
    \/ Return

SpecEdge == Init /\ [][NextEdge]_vars

\* ------------------------------------------------------------------------
\* The message pipeline: update_profile -> extract_profile_updates
\* ------------------------------------------------------------------------
\* update_profile(u, message) is entered
NewRequest(u, msg, k, before) ==
    [pc |-> "get", u |-> u, msg |-> msg, k |-> k, before |-> before,
     current_profile |-> NoProfile, message_count |-> PyBool(FALSE),
     cleaned |-> EmptyDict, rfail |-> FALSE, wfail |-> FALSE, ntc_at_check |-> FALSE,
     result |-> EmptyResult, replied |-> FALSE]

Receive(p, u, msg) ==
    /\ \A q \in Procs : procs[q].pc = "idle"
    /\ processed[u] < MaxMessages
    /\ processed' = [processed EXCEPT ![u] = @ + 1]
    /\ procs' = [procs EXCEPT ![p] = NewRequest(u, msg, processed[u] + 1, store[u])]
    /\ UNCHANGED <<store, last, conversation_history, autos>>

\* current_profile = get_user_profile(user_id) or {}
GetUserProfile(p, fail) ==
    /\ procs[p].pc = "get"
    /\ procs' = [procs EXCEPT ![p].current_profile = get_user_profile(store[procs[p].u], fail),
                              ![p].rfail = fail,
                              ![p].pc = "increment"]
    /\ UNCHANGED <<store, last, processed, conversation_history, autos>>

\* variant: the row is queried without the user_id filter
IncrementFirstRow(p, fail) ==
    /\ procs[p].pc = "increment"
    /\ \E v \in Users :
          /\ \A w \in Users : store[w].exists => store[v].exists
          /\ LET r == increment_message_count(store[v], fail) IN
             /\ store' = [store EXCEPT ![v] = r.store]
             /\ procs' = [procs EXCEPT ![p].message_count = PyBool(r.ret),
                                       ![p].pc = "extract"]
    /\ UNCHANGED <<last, processed, conversation_history, autos>>

\* message_count = increment_message_count(user_id)
Increment(p, fail) ==
    /\ procs[p].pc = "increment"
    /\ LET r == increment_message_count(store[procs[p].u], fail) IN
       /\ store' = [store EXCEPT ![procs[p].u] = r.store]
       /\ procs' = [procs EXCEPT ![p].message_count = PyBool(r.ret),
                                 ![p].pc = "extract"]
    /\ UNCHANGED <<last, processed, conversation_history, autos>>

\* the injection check, the extraction call and _clean_profile_updates
Extract(p) ==
    /\ procs[p].pc = "extract"
    /\ LET r == procs[p]
           msg == r.msg
       IN  IF msg.inj
           THEN procs' = [procs EXCEPT ![p].result = SecurityResult, ![p].pc = "done"]
           ELSE IF msg.llm_fail
           THEN procs' = [procs EXCEPT ![p].result = EmptyResult, ![p].pc = "done"]
           ELSE IF msg.updates # EmptyDict
           THEN LET c == clean_profile_updates(msg.updates, r.current_profile) IN
                IF ~c.ok
                THEN procs' = [procs EXCEPT ![p].result = EmptyResult, ![p].pc = "done"]
                ELSE IF c.v # EmptyDict
                THEN procs' = [procs EXCEPT ![p].cleaned = c.v, ![p].pc = "update"]
                ELSE procs' = [procs EXCEPT ![p].pc = "threshold"]
           ELSE procs' = [procs EXCEPT ![p].pc = "threshold"]
    /\ UNCHANGED <<store, last, processed, conversation_history, autos>>

\* update_user_profile(user_id, cleaned_updates)
Update_(p, fail) ==
    /\ procs[p].pc = "update"
    /\ store' = [store EXCEPT ![procs[p].u] =
                    update_user_profile(store[procs[p].u], procs[p].cleaned, fail)]
    /\ procs' = [procs EXCEPT ![p].wfail = fail, ![p].pc = "threshold"]
    /\ UNCHANGED <<last, processed, conversation_history, autos>>

\* the auto-trigger and the return of extract_profile_updates
Threshold(p, fail) ==
    /\ procs[p].pc = "threshold"
    /\ LET r == procs[p]
           fires == ThresholdReached(r.message_count, r.current_profile)
           actions == IF fires THEN Append(r.msg.actions, AutoAction) ELSE r.msg.actions
       IN  /\ store' = IF fires
                       THEN [store EXCEPT ![r.u] =
                               update_user_profile(store[r.u],
                                   [need_team_contact |-> PyBool(TRUE)], fail)]
                       ELSE store
           /\ procs' = [procs EXCEPT
                 ![p].wfail = r.wfail \/ (fires /\ fail),
                 ![p].ntc_at_check = NeedTeamContact(store[r.u]),
                 ![p].result = NormalResult(r.msg.updates, actions, r.message_count),
                 ![p].pc = "done"]
           /\ autos' = IF fires THEN [autos EXCEPT ![r.u] = @ + 1] ELSE autos
    /\ UNCHANGED <<last, processed, conversation_history>>

\* update_profile returns to the HTTP layer
Finish ==
    /\ \E p \in Procs : procs[p].pc = "done"
    /\ \A p \in Procs : procs[p].pc \in {"idle", "done"}
    /\ procs' = [p \in Procs |-> IdleProc]
    /\ UNCHANGED <<store, last, processed, conversation_history, autos>>

\* the response of update_profile for a finished request
Response(p) == update_profile(procs[p].result)

\* one request at a time; every store access may fail
NextSeq ==
    \/ \E u \in SeqUsers, msg \in Messages : Receive("p1", u, msg)
    \/ \E fail \in BOOLEAN : GetUserProfile("p1", fail)
    \/ \E fail \in BOOLEAN : Increment("p1", fail)
    \/ Extract("p1")
    \/ \E fail \in BOOLEAN : Update_("p1", fail)
    \/ \E fail \in BOOLEAN : Threshold("p1", fail)
    \/ Finish

SpecSeq == Init /\ [][NextSeq]_vars

\* one request at a time, the store never fails
NextSeqOk ==
    \/ \E u \in SeqUsers, msg \in Messages : Receive("p1", u, msg)
    \/ GetUserProfile("p1", FALSE)
    \/ Increment("p1", FALSE)
    \/ Extract("p1")
    \/ Update_("p1", FALSE)
    \/ Threshold("p1", FALSE)
    \/ Finish

SpecSeqOk == Init /\ [][NextSeqOk]_vars

\* messages whose extraction succeeds and carries no scheduling request
PlainMessages == {m \in Messages : ~m.inj /\ ~m.llm_fail /\ m.actions = << >>}

NextPlain ==
    \/ \E u \in SeqUsers, msg \in PlainMessages : Receive("p1", u, msg)
    \/ GetUserProfile("p1", FALSE)
    \/ Increment("p1", FALSE)
    \/ Extract("p1")
    \/ Update_("p1", FALSE)
    \/ Threshold("p1", FALSE)
    \/ Finish

SpecPlain == Init /\ [][NextPlain]_vars

\* the scenario payloads, one request at a time, the store never fails
NextScenario ==
    \/ \E u \in SeqUsers, msg \in ScenarioMessages : Receive("p1", u, msg)
    \/ GetUserProfile("p1", FALSE)
    \/ Increment("p1", FALSE)
    \/ Extract("p1")
    \/ Update_("p1", FALSE)
    \/ Threshold("p1", FALSE)
    \/ Finish

SpecScenario == Init /\ [][NextScenario]_vars

\* a row written by a direct update_user_profile call before the user chats
SeedRow(u, data) ==
    /\ \A q \in Procs : procs[q].pc = "idle"
    /\ ~store[u].exists
    /\ store' = [store EXCEPT ![u] = update_user_profile(store[u], data, FALSE)]
    /\ UNCHANGED <<last, procs, processed, conversation_history, autos>>

\* function-call arguments that ask for need_team_contact to be cleared
DeveloperContactOffPayload ==
    [role |-> PyStr(sDeveloper), need_team_contact |-> PyBool(FALSE)]

\* the messages for users that may already have a row without a role
NextSeeded ==
    \/ \E u \in SeqUsers, data \in {EmptyDict, [time_of_cap_gain |-> PyStr(sUpcoming)]} :
          SeedRow(u, data)
    \/ \E u \in SeqUsers,
          msg \in ScenarioMessages
                  \cup {PlainMessage([need_team_contact |-> PyBool(FALSE)]),
                        PlainMessage(DeveloperContactOffPayload),
                        InjectionMessage, LlmFailMessage} :
          Receive("p1", u, msg)
    \/ GetUserProfile("p1", FALSE)
    \/ Increment("p1", FALSE)
    \/ Extract("p1")
    \/ Update_("p1", FALSE)
    \/ Threshold("p1", FALSE)
    \/ Finish

SpecSeeded == Init /\ [][NextSeeded]_vars

\* ------------------------------------------------------------------------
\* Two requests of one user in flight at once (no store failures)
\* ------------------------------------------------------------------------
ReceivePair(u, mA, mB) ==
    /\ \A q \in Procs : procs[q].pc = "idle"
    /\ processed[u] + 2 <= MaxMessages
    /\ processed' = [processed EXCEPT ![u] = @ + 2]
    /\ procs' = [procs EXCEPT !["p1"] = NewRequest(u, mA, processed[u] + 1, store[u]),
                              !["p2"] = NewRequest(u, mB, processed[u] + 2, store[u])]
    /\ UNCHANGED <<store, last, conversation_history, autos>>

NextConc ==
    \/ \E u \in SeqUsers, mA \in Messages, mB \in Messages : ReceivePair(u, mA, mB)
    \/ \E p \in Procs : GetUserProfile(p, FALSE)
    \/ \E p \in Procs : Increment(p, FALSE)
    \/ \E p \in Procs : Extract(p)
    \/ \E p \in Procs : Update_(p, FALSE)
    \/ \E p \in Procs : Threshold(p, FALSE)
    \/ Finish

SpecConc == Init /\ [][NextConc]_vars

\* ------------------------------------------------------------------------
\* rag.py: get_response_from_gemini for two users at once (no store failures)
\* ------------------------------------------------------------------------
HistoryLimit == 20

UserEntry(k) == [role |-> "user", k |-> k]
AssistantEntry(k) == [role |-> "assistant", k |-> k]

\* the last n entries: history[-n:]
LastEntries(history, n) ==
    IF Len(history) <= n THEN history
    ELSE SubSeq(history, Len(history) - n + 1, Len(history))

\* return paths of ChatAgent.get_response: injection deflection, moderation
\* refusal, normal reply, generate_content raising
ResponsePaths == {"deflect", "moderate", "normal", "error"}

\* conversation_history[user_id] after get_response for the k-th message
get_response(history, k, path) ==
    LET h1 == Append(history, UserEntry(k)) IN
    IF path \in {"deflect", "moderate"} THEN Append(h1, AssistantEntry(k))
    ELSE IF path = "normal"
    THEN LET h2 == Append(h1, AssistantEntry(k)) IN
         IF Len(h2) > HistoryLimit THEN LastEntries(h2, HistoryLimit) ELSE h2
    ELSE h1

\* the request of each worker's user
ChatUser == [p \in Procs |-> IF p = "p1" THEN "u1" ELSE "u2"]

ChatMessages ==
    {InjectionMessage,
     PlainMessage([role |-> PyStr(sInvestor)]),
     PlainMessage([role |-> PyStr(sDeveloper), location_of_development |-> PyStr(sAustin)])}

\* get_response_from_gemini(user_id, message) is entered
ReceiveChat(p, msg) ==
    /\ procs[p].pc = "idle"
    /\ processed[ChatUser[p]] < MaxChat
    /\ processed' = [processed EXCEPT ![ChatUser[p]] = @ + 1]
    /\ procs' = [procs EXCEPT ![p] = NewRequest(ChatUser[p], msg, processed[ChatUser[p]] + 1,
                                                 store[ChatUser[p]])]
    /\ UNCHANGED <<store, last, conversation_history, autos>>

\* chat_agent.get_response(user_id, message, profile, actions)
GetResponse(p, path) ==
    /\ procs[p].pc = "done"
    /\ ~procs[p].replied
    /\ conversation_history' =
          [conversation_history EXCEPT ![procs[p].u] = get_response(@, procs[p].k, path)]
    /\ procs' = [procs EXCEPT ![p].replied = TRUE]
    /\ UNCHANGED <<store, last, processed, autos>>

\* get_response_from_gemini returns to the HTTP layer
FinishChat(p) ==
    /\ procs[p].pc = "done"
    /\ procs[p].replied
    /\ procs' = [procs EXCEPT ![p] = IdleProc]
    /\ UNCHANGED <<store, last, processed, conversation_history, autos>>

NextChat ==
    \/ \E p \in Procs, msg \in ChatMessages : ReceiveChat(p, msg)
    \/ \E p \in Procs : GetUserProfile(p, FALSE)
    \/ \E p \in Procs : Increment(p, FALSE)
    \/ \E p \in Procs : Extract(p)
    \/ \E p \in Procs : Update_(p, FALSE)
    \/ \E p \in Procs : Threshold(p, FALSE)
    \/ \E p \in Procs, path \in ResponsePaths : GetResponse(p, path)
    \/ \E p \in Procs : FinishChat(p)

SpecChat == Init /\ [][NextChat]_vars

\* ------------------------------------------------------------------------
\* rag.py: one user's conversation, ChatAgent.get_response called turn by turn
\* ------------------------------------------------------------------------
\* chat_agent.get_response(user_id, message, ...) runs to its return
ChatAgentGetResponse(u, path) ==
    /\ processed[u] < MaxTurns
    /\ processed' = [processed EXCEPT ![u] = @ + 1]
    /\ conversation_history' =
          [conversation_history EXCEPT ![u] = get_response(@, processed[u] + 1, path)]
    /\ UNCHANGED <<store, last, procs, autos>>

NextHistory == \E u \in SeqUsers, path \in ResponsePaths : ChatAgentGetResponse(u, path)

SpecHistory == Init /\ [][NextHistory]_vars

\* the stored row after one message is processed alone, without store failures
RunMessage(profile, msg) ==
    LET current_profile == get_user_profile(profile, FALSE)
        inc == increment_message_count(profile, FALSE)
        message_count == PyBool(inc.ret)
    IN  IF msg.inj \/ msg.llm_fail THEN inc.store
        ELSE LET c == IF msg.updates # EmptyDict
                      THEN clean_profile_updates(msg.updates, current_profile)
                      ELSE Returns(EmptyDict)
             IN  IF ~c.ok THEN inc.store
                 ELSE LET s1 == IF c.v # EmptyDict
                                THEN update_user_profile(inc.store, c.v, FALSE)
                                ELSE inc.store
                      IN  IF ThresholdReached(message_count, current_profile)
                          THEN update_user_profile(s1, [need_team_contact |-> PyBool(TRUE)], FALSE)
                          ELSE s1

\* ------------------------------------------------------------------------
\* Properties
\* ------------------------------------------------------------------------
Row(u) == store[u].row
IsInvestor(profile) == profile.exists /\ profile.row["role"] = PyStr(sInvestor)
IsDeveloper(profile) == profile.exists /\ profile.row["role"] = PyStr(sDeveloper)
InvestorFieldsNull(profile) == \A f \in InvestorFields : IsNone(profile.row[f])
UpdateDone(u) == last.op = "update_user_profile" /\ last.u = u /\ ~last.fail
Done(p) == procs[p].pc = "done"
HasAutoAction(actions) == \E i \in 1..Len(actions) : actions[i] = AutoAction

GroupsExclusive(profile) ==
    profile.exists =>
        /\ (profile.row["role"] = PyStr(sInvestor) \/ IsNone(profile.row["role"]))
              => IsNone(profile.row["location_of_development"])
        /\ ~IsNone(profile.row["location_of_development"]) => InvestorFieldsNull(profile)

\* C1: after every update_user_profile / increment_message_count call the
\* stored profile never has both field groups populated: role Investor or
\* unset implies location_of_development is null, and a non-null
\* location_of_development implies the four Investor fields are null.
C1_InvariantClosure == \A u \in Users : GroupsExclusive(store[u])

\* a Developer row with a location was just turned into an Investor row
C1_Witness ==
    /\ UpdateDone("u1")
    /\ IsDeveloper(last.before)
    /\ last.before.row["location_of_development"] = PyStr(sAustin)
    /\ IsInvestor(store["u1"])

\* C2: every stored Developer profile has the four Investor-only fields null
\* and a non-empty location_of_development, which is the placeholder
\* 'Location to be determined' when the update supplied no location.
C2_DeveloperShape ==
    \A u \in Users :
        /\ IsDeveloper(store[u]) =>
              /\ InvestorFieldsNull(store[u])
              /\ Truthy(Row(u)["location_of_development"])
        /\ (UpdateDone(u) /\ IsDeveloper(store[u])
            /\ (~Has(last.data, "location_of_development")
                \/ ~Truthy(last.data["location_of_development"])))
              => Row(u)["location_of_development"] = PyStr(sPlaceholder)

\* an Investor row with a capital gain was just turned into a Developer row
\* by an update that carried no location
C2_Witness ==
    /\ UpdateDone("u1")
    /\ IsInvestor(last.before)
    /\ last.before.row["cap_gain_or_not"] = PyBool(TRUE)
    /\ ~Has(last.data, "location_of_development")
    /\ IsDeveloper(store["u1"])

\* C3: when the effective role is Investor and the incoming mapping omits
\* cap_gain_or_not, a cap_gain_or_not value already stored is preserved.
C3_CapGainPreserved ==
    \A u \in Users :
        (/\ UpdateDone(u)
         /\ IsInvestor(store[u])
         /\ ~Has(last.data, "cap_gain_or_not")
         /\ last.before.exists
         /\ ~IsNone(last.before.row["cap_gain_or_not"]))
        => Row(u)["cap_gain_or_not"] = last.before.row["cap_gain_or_not"]

\* C4: when the effective role is Developer and the incoming mapping omits
\* location_of_development, a non-empty stored location is preserved.
C4_LocationPreserved ==
    \A u \in Users :
        (/\ UpdateDone(u)
         /\ IsDeveloper(store[u])
         /\ ~Has(last.data, "location_of_development")
         /\ last.before.exists
         /\ Truthy(last.before.row["location_of_development"]))
        => Row(u)["location_of_development"] = last.before.row["location_of_development"]

\* C5: over 5 sequential messages of a fresh user without a scheduling
\* request, need_team_contact is false after messages 1-3 and true after
\* message 4, and the automatic share_calendar_link action is in the result
\* of message 4 only.
C5_AutoTriggerAtFourth ==
    \A p \in Procs :
        Done(p) =>
            LET k == procs[p].k
                auto == HasAutoAction(Response(p).actions)
            IN  /\ k \in 1..3 => (~NeedTeamContact(store[procs[p].u]) /\ ~auto)
                /\ k = 4 => (NeedTeamContact(store[procs[p].u]) /\ auto)
                /\ k = 5 => ~auto

\* C6: the value reported as message_count after the k-th processed message
\* of a user is k.
C6_CountIsOrdinal ==
    \A p \in Procs :
        (Done(p) /\ Response(p).status = "success")
        => IntOf(Response(p).message_count) = procs[p].k

\* C7: for two concurrently in-flight messages of one user, the stored
\* profile after both have finished equals the result of processing the two
\* messages in some serial order.
C7_Serializable ==
    (Done("p1") /\ Done("p2") /\ procs["p1"].u = procs["p2"].u)
    => LET u == procs["p1"].u
           base == procs["p1"].before
           mA == procs["p1"].msg
           mB == procs["p2"].msg
       IN  store[u] \in {RunMessage(RunMessage(base, mA), mB),
                         RunMessage(RunMessage(base, mB), mA)}

\* C8: a message flagged as a prompt-injection attempt yields a security flag
\* with no updates and no actions, and leaves every field of the stored
\* profile as it was before the message.
C8_InjectionNoMutation ==
    \A p \in Procs :
        (Done(p) /\ procs[p].msg.inj)
        => /\ procs[p].result = SecurityResult
           /\ Response(p) = [status |-> "security_warning"]
           /\ store[procs[p].u] = procs[p].before

\* C9: update_profile never returns status 'success' for a request whose
\* profile write did not persist.
C9_WriteFailurePropagated ==
    \A p \in Procs :
        (Done(p) /\ procs[p].wfail) => Response(p).status # "success"

\* C10: when the extraction call fails the request still succeeds, no profile
\* field is written, and the reported message_count is the count the
\* increment produced for this message.
C10_ExtractionFailureDegrades ==
    \A p \in Procs :
        (Done(p) /\ ~procs[p].msg.inj /\ procs[p].msg.llm_fail)
        => /\ Response(p).status = "success"
           /\ procs[p].before.exists =>
                 \A c \in Columns \ {"need_team_contact"} :
                     Row(procs[p].u)[c] = procs[p].before.row[c]
           /\ IntOf(Response(p).message_count) = IntOf(procs[p].message_count)

\* C11: a payload with one invalid field next to one valid field (zone
\* 'California' with role 'investor'), run through _clean_profile_updates and
\* then update_user_profile, ends with the valid field applied (stored role
\* 'Investor') and the invalid field absent; it does not raise and does not
\* drop both fields.
C11_MixedPayloadApplied ==
    \A p \in Procs :
        (Done(p) /\ procs[p].msg.updates = MixedPayload)
        => /\ procs[p].result.kind = "normal"
           /\ IsInvestor(store[procs[p].u])
           /\ Row(procs[p].u)["geographical_zone_of_investment"] # PyStr(s_California)

\* C12: whatever the shape of a malformed field value, normalization and merge
\* do not raise, and a valid role of the same payload is still stored.
C12_MalformedFieldIsolated ==
    \A p \in Procs :
        (/\ Done(p)
         /\ ~procs[p].msg.inj /\ ~procs[p].msg.llm_fail
         /\ Has(procs[p].msg.updates, "role")
         /\ procs[p].msg.updates["role"] \in {PyStr(sInvestor), PyStr(sDeveloper)})
        => /\ procs[p].result.kind = "normal"
           /\ store[procs[p].u].exists
           /\ Row(procs[p].u)["role"] = procs[p].msg.updates["role"]

\* C13: in an update_user_profile call that keeps the stored role, a field that
\* is absent from the incoming mapping or whose value fails validation keeps
\* its previously stored value (it is neither nulled nor replaced by a
\* default), while the valid role/timing/zone/amount fields of the same call
\* are applied.
C13_RejectedFieldUnchanged ==
    \A u \in Users :
        (/\ UpdateDone(u)
         /\ last.before.exists
         /\ Row(u)["role"] = last.before.row["role"])
        => LET cleaned == CleanFields(last.data) IN
           /\ \A f \in Columns :
                 ~Has(cleaned, f) => Row(u)[f] = last.before.row[f]
           /\ \A f \in {"time_of_cap_gain", "geographical_zone_of_investment",
                         "size_of_cap_gain"} :
                 (Has(cleaned, f) /\ ~IsDeveloper(store[u])) => Row(u)[f] = cleaned[f]

TransitionPayload ==
    [role |-> PyStr(sDeveloper), location_of_development |-> PyStr(sAustin)]

InvestorWithGain(profile) ==
    /\ IsInvestor(profile)
    /\ profile.row["cap_gain_or_not"] = PyBool(TRUE)
    /\ profile.row["size_of_cap_gain"] = PyFloat(FALSE, 500000, 0)

\* C14: merging {role: 'Developer', location_of_development: 'Austin, TX'}
\* into a stored Investor with cap_gain_or_not true and size_of_cap_gain
\* 500000 yields role Developer, location 'Austin, TX' and the four Investor
\* fields null; a later transition back to Investor does not restore the
\* erased values (each Investor field is what that call supplies, else the
\* default).
C14_RoleTransitionErasure ==
    \A u \in Users :
        /\ (UpdateDone(u) /\ InvestorWithGain(last.before) /\ last.data = TransitionPayload)
            => /\ IsDeveloper(store[u])
               /\ Row(u)["location_of_development"] = PyStr(sAustin)
               /\ InvestorFieldsNull(store[u])
        /\ (UpdateDone(u) /\ IsDeveloper(last.before) /\ IsInvestor(store[u]))
            => LET cleaned == CleanFields(last.data) IN
               \A f \in InvestorFields :
                   Row(u)[f] = IF Has(cleaned, f) THEN cleaned[f]
                               ELSE IF f = "cap_gain_or_not" THEN PyBool(FALSE)
                               ELSE PyNone

\* the Investor with a 500000 gain was just merged with the Developer payload
C14_Witness ==
    /\ UpdateDone("u1")
    /\ InvestorWithGain(last.before)
    /\ last.data = TransitionPayload
    /\ IsDeveloper(store["u1"])

\* C15: a store failure during a profile read surfaces as an error distinct
\* from 'no profile': get_user_profile / get_profile do not return for a
\* failed read of an existing profile what they return for a user without a
\* profile, and extract_profile_updates does not carry on after a failed read.
C15_ReadFailureDistinct ==
    /\ \A u \in Users :
          store[u].exists =>
              /\ get_user_profile(store[u], TRUE) # get_user_profile(NoProfile, FALSE)
              /\ get_profile(store[u], TRUE) # get_profile(NoProfile, FALSE)
    /\ \A p \in Procs :
          (procs[p].pc # "idle" /\ procs[p].rfail /\ procs[p].before.exists)
          => (Done(p) /\ Response(p).status # "success")

HasAction(actions, a) == \E i \in 1..Len(actions) : actions[i] = a

\* C16: a message whose extraction result carries a trigger_action of
\* share_calendar_link has a share_calendar_link action in its own result,
\* whatever the message count and every time the request recurs, and
\* processing it leaves need_team_contact as it was.
C16_ExplicitRequestHonoured ==
    \A p \in Procs :
        (/\ Done(p)
         /\ ~procs[p].msg.inj /\ ~procs[p].msg.llm_fail
         /\ HasAction(procs[p].msg.actions, LlmAction("share_calendar_link")))
        => /\ Response(p).status = "success"
           /\ HasAction(Response(p).actions, LlmAction("share_calendar_link"))
           /\ NeedTeamContact(store[procs[p].u]) = NeedTeamContact(procs[p].before)

\* C17: over the processed messages of one user the automatic
\* share_calendar_link action is returned at most once, and never for a
\* message for which need_team_contact was already true in the store when the
\* threshold check ran.
C17_AutoActionOnce ==
    /\ \A u \in Users : autos[u] <= 1
    /\ \A p \in Procs :
          (Done(p) /\ procs[p].result.kind = "normal"
           /\ HasAutoAction(procs[p].result.actions))
          => ~procs[p].ntc_at_check

\* a message at or past the threshold was processed while need_team_contact
\* was already true in the store, and no automatic action was returned
C17_Witness ==
    \E p \in Procs :
        /\ Done(p)
        /\ procs[p].k >= AutoTriggerThreshold
        /\ procs[p].ntc_at_check
        /\ procs[p].result.kind = "normal"
        /\ ~HasAutoAction(procs[p].result.actions)
        /\ autos[procs[p].u] = 0

\* the stored row after the first n messages of Conversation, from a fresh user
RECURSIVE AfterConversation(_)
AfterConversation(n) ==
    IF n = 0 THEN NoProfile
    ELSE RunMessage(AfterConversation(n - 1), PlainMessage(Conversation[n]))

\* C18: for a fresh user, processing the four messages with extraction
\* results {role: 'Investor'}, {time_of_cap_gain: 'More than 180 days AGO'},
\* {size_of_cap_gain: '1300000'}, {time_of_cap_gain: 'Last 180 days'} ends
\* with stored role Investor, size_of_cap_gain 1300000, time_of_cap_gain
\* 'Last 180 days', message_count 4 and need_team_contact true.
C18_ConversationOutcome ==
    \A p \in Procs :
        (/\ Done(p)
         /\ procs[p].k = 4
         /\ procs[p].msg = PlainMessage(Conversation[4])
         /\ procs[p].before = AfterConversation(3))
        => /\ IsInvestor(store[procs[p].u])
           /\ Row(procs[p].u)["size_of_cap_gain"] = PyFloat(FALSE, 1300000, 0)
           /\ Row(procs[p].u)["time_of_cap_gain"] = PyStr(sLast180)
           /\ NeedTeamContact(store[procs[p].u])
           /\ IntOf(Response(p).message_count) = 4

\* C19: increment_message_count leaves role, the Investor fields, the
\* Developer field and need_team_contact of the stored profile unchanged
\* (only update_user_profile changes them).
C19_IncrementFrame ==
    \A u \in Users :
        (last.op = "increment_message_count" /\ last.u = u) => store[u] = last.before

\* C20: a step of a request of user A never changes the stored profile or the
\* conversation history of a different user B: whenever a user's row or
\* history changes, the step belongs to an in-flight request of that user.
C20_UserIsolation ==
    [][\A u \in Users :
          (store'[u] # store[u] \/ conversation_history'[u] # conversation_history[u])
          => \E p \in Procs :
                /\ procs[p].pc # "idle"
                /\ procs[p].u = u
                /\ procs'[p] # procs[p]
                /\ \A q \in Procs \ {p} : procs'[q] = procs[q]]_vars

\* both users have a stored profile and a conversation history while requests
\* of both are in flight
C20_Witness ==
    /\ \A u \in Users : store[u].exists /\ conversation_history[u] # << >>
    /\ store["u1"] # store["u2"]
    /\ procs["p1"].pc = "update"
    /\ procs["p2"].pc = "increment"

\* C21: in every stored profile size_of_cap_gain, when set, is a finite
\* non-negative number (a negative or non-finite incoming amount is rejected
\* and never stored).
C21_AmountNonNegative ==
    \A u \in Users :
        (store[u].exists /\ ~IsNone(Row(u)["size_of_cap_gain"]))
        => /\ Row(u)["size_of_cap_gain"].t = "float"
           /\ Row(u)["size_of_cap_gain"].k = "fin"
           /\ (Row(u)["size_of_cap_gain"].neg => Row(u)["size_of_cap_gain"].m = 0)

\* the valid role an incoming value matches ignoring case (and surrounding
\* blanks), or None
CanonicalRole(v) ==
    IF v.t = "str" /\ Lower(Strip(v.s)) = Lower(sInvestor) THEN PyStr(sInvestor)
    ELSE IF v.t = "str" /\ Lower(Strip(v.s)) = Lower(sDeveloper) THEN PyStr(sDeveloper)
    ELSE PyNone

StoredRole(profile) == IF profile.exists THEN profile.row["role"] ELSE PyNone

StoredZone(profile) ==
    IF profile.exists THEN profile.row["geographical_zone_of_investment"] ELSE PyNone

\* C23: in every stored profile geographical_zone_of_investment, when set, is
\* 2 characters, upper case and a member of US_STATES; 'fl' is stored as 'FL',
\* and an input that is not a member ('XX') is rejected and leaves the stored
\* value unchanged (a Developer row holds no zone at all).
C23_ZoneCanonical ==
    \A u \in Users :
        /\ ~IsNone(StoredZone(store[u]))
            => /\ StoredZone(store[u]).t = "str"
               /\ Len(StoredZone(store[u]).s) = 2
               /\ Upper(StoredZone(store[u]).s) = StoredZone(store[u]).s
               /\ InList(StoredZone(store[u]).s, US_STATES)
        /\ (UpdateDone(u) /\ Has(last.data, "geographical_zone_of_investment"))
            => LET v == last.data["geographical_zone_of_investment"] IN
               IF IsDeveloper(store[u]) THEN IsNone(StoredZone(store[u]))
               ELSE IF v.t = "str" /\ InList(Upper(Strip(v.s)), US_STATES) THEN StoredZone(store[u]) = PyStr(Upper(Strip(v.s)))
               ELSE StoredZone(store[u]) = StoredZone(last.before)

\* 'XX' was just merged into a row that holds 'FL'
C23_Witness ==
    /\ UpdateDone("u1")
    /\ last.data = [geographical_zone_of_investment |-> PyStr(sXX)]
    /\ StoredZone(last.before) = PyStr(sFL)
    /\ StoredZone(store["u1"]) = PyStr(sFL)

C25_ReadUnknownUser ==
    \A u \in Users :
        (last.op = "get_profile" /\ last.u = u /\ ~last.fail /\ ~last.before.exists)
        => /\ last.ret = EmptyView
           /\ store[u] = NoProfile

\* the never-written user was just read while another user has a profile
C25_Witness ==
    /\ last.op = "get_profile"
    /\ last.u = "u2"
    /\ ~last.fail
    /\ last.ret = EmptyView
    /\ store["u1"].exists
    /\ ~store["u2"].exists

\* C26: the merge is idempotent: after update_user_profile(u, data), a second
\* update_user_profile(u, data) leaves every stored field as it is.
C26_MergeIdempotent ==
    \A u \in Users :
        UpdateDone(u) => update_user_profile(store[u], last.data, FALSE) = store[u]

\* a call that changed the role of an existing row has just completed
C26_Witness ==
    /\ UpdateDone("u1")
    /\ IsInvestor(last.before)
    /\ last.before.row["cap_gain_or_not"] = PyBool(TRUE)
    /\ IsDeveloper(store["u1"])
    /\ store["u1"] # last.before

HasRole(profile) == StoredRole(profile) \in {PyStr(sInvestor), PyStr(sDeveloper)}

\* C29: once the stored role is Investor or Developer, no update_user_profile
\* call (whatever role value it carries) returns it to unset: the role stays
\* the same or switches to the other valid role.
C29_RoleNeverUnset ==
    [][\A u \in Users : HasRole(store[u]) => HasRole(store'[u])]_vars

\* an invalid role was just merged into an Investor row, which kept its role
C29_Witness ==
    /\ UpdateDone("u1")
    /\ Has(last.data, "role")
    /\ last.data["role"] = PyStr(s_admin)
    /\ IsInvestor(last.before)
    /\ IsInvestor(store["u1"])

\* C27: _clean_profile_updates emits role-specific fields only for the
\* effective role: none of either group when no role is effective, no
\* location_of_development for Investor, no Investor field for Developer; and
\* a processed message stores no Investor field for a user whose role is unset.
C27_NormalizerRoleScoped ==
    \A p \in Procs :
        /\ (procs[p].pc = "extract" /\ ~procs[p].msg.inj /\ ~procs[p].msg.llm_fail)
            => LET c == clean_profile_updates(procs[p].msg.updates, procs[p].current_profile)
                   upd == procs[p].msg.updates
                   \* the payload's role when exactly 'Developer' or 'Investor',
                   \* else the role of the profile the normalizer was given
                   eff == IF Has(upd, "role")
                             /\ upd["role"] \in {PyStr(sDeveloper), PyStr(sInvestor)}
                          THEN upd["role"]
                          ELSE ProfileGet(procs[p].current_profile, "role")
               IN  c.ok =>
                     /\ IsNone(eff) =>
                           DOMAIN c.v \cap (InvestorFields \cup {"location_of_development"}) = {}
                     /\ eff = PyStr(sInvestor) => ~Has(c.v, "location_of_development")
                     /\ eff = PyStr(sDeveloper) => DOMAIN c.v \cap InvestorFields = {}
        /\ (Done(p) /\ IsNone(StoredRole(store[procs[p].u])))
            => \A f \in InvestorFields :
                  store[procs[p].u].exists
                  => store[procs[p].u].row[f]
                       = (IF procs[p].before.exists THEN procs[p].before.row[f] ELSE PyNone)

\* a message carrying an Investor field was processed for a user whose row
\* has no role
C27_Witness ==
    \E p \in Procs :
        /\ Done(p)
        /\ store[procs[p].u].exists
        /\ IsNone(StoredRole(store[procs[p].u]))
        /\ procs[p].result.kind = "normal"
        /\ Has(procs[p].msg.updates, "size_of_cap_gain")

\* C28: need_team_contact is monotonic over the message pipeline: once true
\* in a user's stored profile, no step of processing a message (role
\* transitions and failed extractions included) makes it false again.
C28_ContactMonotonic ==
    [][\A u \in Users : NeedTeamContact(store[u]) => NeedTeamContact(store'[u])]_vars

\* an Investor with need_team_contact set became a Developer through a
\* message whose arguments asked for need_team_contact False
C28_Witness ==
    \E p \in Procs :
        /\ Done(p)
        /\ procs[p].result.kind = "normal"
        /\ procs[p].msg.updates = DeveloperContactOffPayload
        /\ NeedTeamContact(procs[p].before)
        /\ IsInvestor(procs[p].before)
        /\ IsDeveloper(store[procs[p].u])
        /\ NeedTeamContact(store[procs[p].u])

\* C30: after every completed ChatAgent.get_response call, on every return
\* path, the conversation history of that user holds at most 20 entries.
C30_HistoryBounded ==
    \A u \in Users : Len(conversation_history[u]) <= HistoryLimit

====
